---- MODULE Spec2Model ----
(***************************************************************************)
(* cleantmp: the walk of clean_temp_files (src/cleantmp/__main__.py) over  *)
(* a directory tree, its classification of file names (is_temp_file), its  *)
(* access check (is_access) and the statistics it keeps.                   *)
(*                                                                         *)
(* A path is the sequence of entry names below the path given on the       *)
(* command line (Root); a name is a sequence of one-character strings, so  *)
(* that fnmatch can be computed on it.  A file system maps every existing  *)
(* path to its kind ("dir" or "file") and to the permissions os.access     *)
(* reports for the user running the program (a subset of {r, w, x}).       *)
(***************************************************************************)
EXTENDS Naturals, Sequences, FiniteSets, TLC

VARIABLES
    fs,         \* the file system: path -> [kind, mode]
    recursive,  \* parser.recursive
    stats,      \* the module-level stats dictionary
    stack,      \* the active calls of clean_temp_files, innermost last
    status,     \* "walking", "done" (report printed), "failed" (CleanTmpException caught)
    error,      \* which CleanTmpException main caught, "none" if none
    fs0,        \* history: the file system when the current run started
    entered,    \* history: paths on which a call passed line 177 in this run
    listed,     \* history: paths given to os.listdir in this run
    run,        \* which run of the program this is (1 or 2)
    prev,       \* history: the stats the run before this one ended with
    filename,   \* the argument of the is_temp_file call of SpecClassify
    verdict     \* its result: "unknown" before the call, then "True" or "False"

vars == <<fs, recursive, stats, stack, status, error, fs0, entered, listed, run,
          prev, filename, verdict>>

----------------------------------------------------------------------------
(* Bounds *)

\* entries below the root in an initial tree
MaxEntries == 2

\* length of the names is_temp_file is tried on in SpecClassify
MaxNameLen == 6

----------------------------------------------------------------------------
(* Names *)

DS_Store    == <<".", "D", "S", "_", "S", "t", "o", "r", "e">>
Thumbs_db   == <<"T", "h", "u", "m", "b", "s", ".", "d", "b">>
ehthumbs_db == <<"e", "h", "t", "h", "u", "m", "b", "s", ".", "d", "b">>
Desktop_ini == <<"D", "e", "s", "k", "t", "o", "p", ".", "i", "n", "i">>

TEMP_FILES == <<DS_Store, Thumbs_db, ehthumbs_db, Desktop_ini>>

FILES_PATTERNS ==
    << <<".", "_", "*">>,
       <<"*", "~">>,
       <<".", "*", ".", "s", "w", "?">> >>

Spotlight  == <<".", "S", "p", "o", "t", "l", "i", "g", "h", "t", "-", "V", "1", "0", "0">>
fseventsd  == <<".", "f", "s", "e", "v", "e", "n", "t", "s", "d">>
Trash      == <<".", "T", "r", "a", "s", "h">>
Trashes    == <<".", "T", "r", "a", "s", "h", "e", "s">>
RecycleBin == <<"$", "R", "E", "C", "Y", "C", "L", "E", ".", "B", "I", "N">>
SysVolInfo == <<"S", "y", "s", "t", "e", "m", " ", "V", "o", "l", "u", "m", "e", " ",
                "I", "n", "f", "o", "r", "m", "a", "t", "i", "o", "n">>

\* faulty variant: ".Trash" is missing from the list
DIRS_TO_IGNORE_NoTrash == <<Spotlight, fseventsd, Trashes, RecycleBin, SysVolInfo>>

DIRS_TO_IGNORE == <<Spotlight, fseventsd, Trash, Trashes, RecycleBin, SysVolInfo>>

InList(x, list) == \E i \in DOMAIN list : list[i] = x

----------------------------------------------------------------------------
(* is_temp_file *)

\* posixpath.normcase, which fnmatch.fnmatch applies to the name and to the
\* pattern: the program is installed in /usr/local/bin (lines 8-9), where
\* normcase returns its argument unchanged.
UpperCase == <<"A", "B", "C", "D", "E", "F", "G", "H", "I", "J", "K", "L", "M",
               "N", "O", "P", "Q", "R", "S", "T", "U", "V", "W", "X", "Y", "Z">>
LowerCase == <<"a", "b", "c", "d", "e", "f", "g", "h", "i", "j", "k", "l", "m",
               "n", "o", "p", "q", "r", "s", "t", "u", "v", "w", "x", "y", "z">>
lower(c) ==
    IF \E i \in DOMAIN UpperCase : UpperCase[i] = c
    THEN LowerCase[CHOOSE i \in DOMAIN UpperCase : UpperCase[i] = c]
    ELSE c

\* faulty variant: ntpath.normcase, which folds case, so that fnmatch.fnmatch
\* matches without regard to case
normcase_FoldsCase(s) == [i \in DOMAIN s |-> lower(s[i])]

normcase(s) == s

\* fnmatch.fnmatchcase for patterns of literals, "*" and "?" (no pattern of
\* FILES_PATTERNS holds a "[" class): the whole name must match.
RECURSIVE fnmatchcase(_, _)
fnmatchcase(name, pat) ==
    IF pat = <<>> THEN name = <<>>
    ELSE IF Head(pat) = "*"
         THEN \/ fnmatchcase(name, Tail(pat))
              \/ name # <<>> /\ fnmatchcase(Tail(name), pat)
         ELSE /\ name # <<>>
              /\ (Head(pat) = "?" \/ Head(pat) = Head(name))
              /\ fnmatchcase(Tail(name), Tail(pat))

fnmatch(name, pat) == fnmatchcase(normcase(name), normcase(pat))

is_temp_file(name) ==
    \/ InList(name, TEMP_FILES)
    \/ \E i \in DOMAIN FILES_PATTERNS : fnmatch(name, FILES_PATTERNS[i])

----------------------------------------------------------------------------
(* The file system *)

Root == <<>>

exists(f, p) == p \in DOMAIN f
\* faulty variant: any existing path passes for a directory
isdir_AnyPath(f, p) == p \in DOMAIN f

isdir(f, p)  == p \in DOMAIN f /\ f[p].kind = "dir"
access(f, p, bit) == p \in DOMAIN f /\ bit \in f[p].mode

Parent(p) == SubSeq(p, 1, Len(p) - 1)
Name(p)   == p[Len(p)]
join(p, file) == Append(p, file)

\* os.listdir: the names of the entries of directory p
listdir(f, p) == {Name(q) : q \in {q \in DOMAIN f : q # Root /\ Parent(q) = p}}

\* faulty variant: a directory is only checked for read permission
is_access_NoExecute(f, p) ==
    IF isdir(f, p)
    THEN access(f, p, "r")
    ELSE access(f, p, "r") /\ access(f, p, "w")

is_access(f, p) ==
    IF isdir(f, p)
    THEN access(f, p, "r") /\ access(f, p, "x")
    ELSE access(f, p, "r") /\ access(f, p, "w")

\* os.remove(p) succeeds when p is there and its directory can be written
\* (and searched); otherwise it raises OSError
remove_ok(f, p) ==
    /\ exists(f, p)
    /\ ~isdir(f, p)
    /\ access(f, Parent(p), "w")
    /\ access(f, Parent(p), "x")

\* faulty variant: the file is left where it was
remove_Nothing(f, p) == f

remove(f, p) == [q \in DOMAIN f \ {p} |-> f[q]]

----------------------------------------------------------------------------
(* Initial trees *)

a_tilde == <<"a", "~">>

\* an exact junk name, an ignored-directory name and a name matching "*~";
\* each may be the name of a file or of a directory
EntryNames == {DS_Store, Trash, a_tilde}

FileModes == {{"r", "w"}, {"r"}, {"w"}}
DirModes  == {{"r", "w", "x"}, {"r", "x"}, {"w", "x"}, {"r", "w"}}

NoRoot == [p \in {} |-> [kind |-> "file", mode |-> {}]]

EntryKinds ==
    [kind : {"file"}, mode : FileModes] \cup [kind : {"dir"}, mode : DirModes]

DirKinds == [kind : {"dir"}, mode : DirModes]

\* the sets of at most n paths below Root that hold the directory of each
\* of their paths
RECURSIVE PathSets(_)
PathSets(n) ==
    IF n = 0
    THEN {{}}
    ELSE LET Smaller == PathSets(n - 1)
         IN  Smaller \cup
             UNION { { S \cup {join(d, name)} : d \in S \cup {Root}, name \in EntryNames }
                     : S \in Smaller }

HasEntries(S, p) == \E q \in S : Parent(q) = p

\* the trees on the paths S: what holds entries is a directory
RECURSIVE TreesOn(_, _)
TreesOn(S, todo) ==
    IF todo = {}
    THEN {NoRoot}
    ELSE LET p == CHOOSE q \in todo : TRUE
             kinds == IF p = Root \/ HasEntries(S, p) THEN DirKinds ELSE EntryKinds
         IN  { (p :> e) @@ f : e \in kinds, f \in TreesOn(S, todo \ {p}) }

\* the path given is a directory holding at most MaxEntries entries in all,
\* or it is missing, or it is a file
IsInitialFs(f) ==
    \/ \E S \in PathSets(MaxEntries) : f \in TreesOn(S, S \cup {Root})
    \/ f \in { NoRoot, (Root :> [kind |-> "file", mode |-> {"r", "w"}]) }

----------------------------------------------------------------------------
(* The program *)

ZeroStats ==
    [examined_files |-> 0, examined_dirs |-> 0, deleted_files |-> 0,
     inaccessible_files |-> 0, inaccessible_dirs |-> 0, ignored_dirs |-> 0]

\* faulty variant: "=" for "+="
Bump_Assign(s, k) == [s EXCEPT ![k] = 1]

Bump(s, k) == [s EXCEPT ![k] = @ + 1]

Frame(p) == [path |-> p, pc |-> "entry", file_list |-> {}]

Top == stack[Len(stack)]
Pop == SubSeq(stack, 1, Len(stack) - 1)
SetTop(fr) == [stack EXCEPT ![Len(stack)] = fr]

InCall(pc) == status = "walking" /\ stack # <<>> /\ Top.pc = pc

\* main's except clause: the exception unwinds every active call
Raise(e) ==
    /\ stack' = <<>>
    /\ status' = "failed"
    /\ error' = e

Init ==
    /\ IsInitialFs(fs)
    /\ recursive \in BOOLEAN
    /\ stats = ZeroStats
    /\ stack = <<Frame(Root)>>
    /\ status = "walking"
    /\ error = "none"
    /\ fs0 = fs
    /\ entered = {}
    /\ listed = {}
    /\ run = 1
    /\ prev = ZeroStats
    /\ filename = <<>>
    /\ verdict = "unknown"

\* faulty variant: the test of line 191 without "and not recursive"
EmptyError_AnyCall(file_list) == Cardinality(file_list) = 0

\* line 191
EmptyError(file_list) == Cardinality(file_list) = 0 /\ ~recursive

\* lines 177-178
RaiseInvalidPath ==
    /\ InCall("entry")
    /\ ~exists(fs, Top.path) \/ ~isdir(fs, Top.path)
    /\ Raise("invalid")
    /\ UNCHANGED <<fs, recursive, stats, fs0, entered, listed, run, prev, filename, verdict>>

\* lines 180-185
SkipInaccessibleDir ==
    /\ InCall("entry")
    /\ exists(fs, Top.path) /\ isdir(fs, Top.path)
    /\ ~is_access(fs, Top.path)
    /\ recursive
    /\ stats' = Bump(Bump(stats, "examined_dirs"), "inaccessible_dirs")
    /\ entered' = entered \cup {Top.path}
    /\ stack' = Pop
    /\ status' = IF Pop = <<>> THEN "done" ELSE status
    /\ UNCHANGED <<fs, recursive, error, fs0, listed, run, prev, filename, verdict>>

\* lines 180-187
RaiseInaccessibleDir ==
    /\ InCall("entry")
    /\ exists(fs, Top.path) /\ isdir(fs, Top.path)
    /\ ~is_access(fs, Top.path)
    /\ ~recursive
    /\ stats' = Bump(stats, "examined_dirs")
    /\ entered' = entered \cup {Top.path}
    /\ Raise("noaccess")
    /\ UNCHANGED <<fs, recursive, fs0, listed, run, prev, filename, verdict>>

\* lines 180-192
RaiseEmptyDir ==
    /\ InCall("entry")
    /\ exists(fs, Top.path) /\ isdir(fs, Top.path)
    /\ is_access(fs, Top.path)
    /\ EmptyError(listdir(fs, Top.path))
    /\ stats' = Bump(stats, "examined_dirs")
    /\ entered' = entered \cup {Top.path}
    /\ listed' = listed \cup {Top.path}
    /\ Raise("empty")
    /\ UNCHANGED <<fs, recursive, fs0, run, prev, filename, verdict>>

\* lines 180-194
ListDir ==
    /\ InCall("entry")
    /\ exists(fs, Top.path) /\ isdir(fs, Top.path)
    /\ is_access(fs, Top.path)
    /\ ~EmptyError(listdir(fs, Top.path))
    /\ stats' = Bump(stats, "examined_dirs")
    /\ entered' = entered \cup {Top.path}
    /\ listed' = listed \cup {Top.path}
    /\ stack' = SetTop([Top EXCEPT !.pc = "loop", !.file_list = listdir(fs, Top.path)])
    /\ UNCHANGED <<fs, recursive, status, error, fs0, run, prev, filename, verdict>>

\* the entry the for loop of line 194 takes next: os.listdir gives no order
Rest(file) == [Top EXCEPT !.file_list = @ \ {file}]

\* lines 196-197, 204
SkipSubdir ==
    /\ InCall("loop")
    /\ \E file \in Top.file_list :
          /\ isdir(fs, join(Top.path, file))
          /\ ~recursive
          /\ stack' = SetTop(Rest(file))
    /\ UNCHANGED <<fs, recursive, stats, status, error, fs0, entered, listed, run,
                   prev, filename, verdict>>

\* lines 196-200
IgnoreDir ==
    /\ InCall("loop")
    /\ \E file \in Top.file_list :
          /\ isdir(fs, join(Top.path, file))
          /\ recursive
          /\ InList(file, DIRS_TO_IGNORE)
          /\ stack' = SetTop(Rest(file))
    /\ stats' = Bump(stats, "ignored_dirs")
    /\ UNCHANGED <<fs, recursive, status, error, fs0, entered, listed, run,
                   prev, filename, verdict>>

\* faulty variant: the call of line 202 outside the "if recursive:" of line 197
Recurse_Always ==
    /\ InCall("loop")
    /\ \E file \in Top.file_list :
          /\ isdir(fs, join(Top.path, file))
          /\ ~InList(file, DIRS_TO_IGNORE)
          /\ stack' = Append(SetTop(Rest(file)), Frame(join(Top.path, file)))
    /\ UNCHANGED <<fs, recursive, stats, status, error, fs0, entered, listed, run,
                   prev, filename, verdict>>

\* lines 196-202: the recursive call; line 204 follows its return
Recurse ==
    /\ InCall("loop")
    /\ \E file \in Top.file_list :
          /\ isdir(fs, join(Top.path, file))
          /\ recursive
          /\ ~InList(file, DIRS_TO_IGNORE)
          /\ stack' = Append(SetTop(Rest(file)), Frame(join(Top.path, file)))
    /\ UNCHANGED <<fs, recursive, stats, status, error, fs0, entered, listed, run,
                   prev, filename, verdict>>

\* lines 206-208, the name is no temporary file's
KeepFile ==
    /\ InCall("loop")
    /\ \E file \in Top.file_list :
          /\ ~isdir(fs, join(Top.path, file))
          /\ ~is_temp_file(file)
          /\ stack' = SetTop(Rest(file))
    /\ stats' = Bump(stats, "examined_files")
    /\ UNCHANGED <<fs, recursive, status, error, fs0, entered, listed, run,
                   prev, filename, verdict>>

\* lines 206-212
NoAccessFile ==
    /\ InCall("loop")
    /\ \E file \in Top.file_list :
          /\ ~isdir(fs, join(Top.path, file))
          /\ is_temp_file(file)
          /\ ~is_access(fs, join(Top.path, file))
          /\ stack' = SetTop(Rest(file))
    /\ stats' = Bump(Bump(stats, "examined_files"), "inaccessible_files")
    /\ UNCHANGED <<fs, recursive, status, error, fs0, entered, listed, run,
                   prev, filename, verdict>>

\* lines 206-216
RemoveFile ==
    /\ InCall("loop")
    /\ \E file \in Top.file_list :
          /\ ~isdir(fs, join(Top.path, file))
          /\ is_temp_file(file)
          /\ is_access(fs, join(Top.path, file))
          /\ remove_ok(fs, join(Top.path, file))
          /\ fs' = remove(fs, join(Top.path, file))
          /\ stack' = SetTop(Rest(file))
    /\ stats' = Bump(Bump(stats, "examined_files"), "deleted_files")
    /\ UNCHANGED <<recursive, status, error, fs0, entered, listed, run,
                   prev, filename, verdict>>

\* faulty variant: no try/except around os.remove, whose exception reaches
\* main's last except clause (lines 237-238)
RemoveFails_Propagates ==
    /\ InCall("loop")
    /\ \E file \in Top.file_list :
          /\ ~isdir(fs, join(Top.path, file))
          /\ is_temp_file(file)
          /\ is_access(fs, join(Top.path, file))
          /\ ~remove_ok(fs, join(Top.path, file))
    /\ stats' = Bump(stats, "examined_files")
    /\ Raise("unexpected")
    /\ UNCHANGED <<fs, recursive, fs0, entered, listed, run, prev, filename, verdict>>

\* lines 206-219, os.remove raises
RemoveFails ==
    /\ InCall("loop")
    /\ \E file \in Top.file_list :
          /\ ~isdir(fs, join(Top.path, file))
          /\ is_temp_file(file)
          /\ is_access(fs, join(Top.path, file))
          /\ ~remove_ok(fs, join(Top.path, file))
          /\ stack' = SetTop(Rest(file))
    /\ stats' = Bump(Bump(stats, "examined_files"), "inaccessible_files")
    /\ UNCHANGED <<fs, recursive, status, error, fs0, entered, listed, run,
                   prev, filename, verdict>>

\* the for loop of line 194 is exhausted: the call returns; the outermost
\* call returns to main, which prints the report (lines 232-234)
Return ==
    /\ InCall("loop")
    /\ Top.file_list = {}
    /\ stack' = Pop
    /\ status' = IF Pop = <<>> THEN "done" ELSE status
    /\ UNCHANGED <<fs, recursive, stats, error, fs0, entered, listed, run,
                   prev, filename, verdict>>

Next ==
    \/ RaiseInvalidPath
    \/ SkipInaccessibleDir
    \/ RaiseInaccessibleDir
    \/ RaiseEmptyDir
    \/ ListDir
    \/ SkipSubdir
    \/ IgnoreDir
    \/ Recurse
    \/ KeepFile
    \/ NoAccessFile
    \/ RemoveFile
    \/ RemoveFails
    \/ Return

Spec == Init /\ [][Next]_vars

----------------------------------------------------------------------------
(* The program run a second time on the tree the first run left *)

\* a new process: main calls clean_temp_files with the same arguments, and
\* the module's stats start at zero again (lines 34-41)
Rerun ==
    /\ status \in {"done", "failed"}
    /\ run = 1
    /\ run' = 2
    /\ prev' = stats
    /\ stats' = ZeroStats
    /\ stack' = <<Frame(Root)>>
    /\ status' = "walking"
    /\ error' = "none"
    /\ fs0' = fs
    /\ entered' = {}
    /\ listed' = {}
    /\ UNCHANGED <<fs, recursive, filename, verdict>>

NextTwice == Next \/ Rerun

SpecTwice == Init /\ [][NextTwice]_vars

----------------------------------------------------------------------------
(* is_temp_file on its own *)

Alphabet == {".", "_", "~", "s", "w", "S"}

ShortNames == UNION { [1..n -> Alphabet] : n \in 0..MaxNameLen }

ds_store_lower == <<".", "d", "s", "_", "s", "t", "o", "r", "e">>
thumbs_db_lower == <<"t", "h", "u", "m", "b", "s", ".", "d", "b">>
notes_txt == <<"n", "o", "t", "e", "s", ".", "t", "x", "t">>
report_txt_tilde == <<"r", "e", "p", "o", "r", "t", ".", "t", "x", "t", "~">>
file_swp == <<".", "f", "i", "l", "e", ".", "s", "w", "p">>
file_SWP == <<".", "f", "i", "l", "e", ".", "S", "W", "P">>
file_swap == <<".", "f", "i", "l", "e", ".", "s", "w", "a", "p">>
nodot_swp == <<"f", "i", "l", "e", ".", "s", "w", "p">>
DS_Store_bak == <<".", "D", "S", "_", "S", "t", "o", "r", "e", ".", "b", "a", "k">>
x_Thumbs_db == <<"x", "T", "h", "u", "m", "b", "s", ".", "d", "b">>

LongNames ==
    {DS_Store, Thumbs_db, ehthumbs_db, Desktop_ini, Spotlight, fseventsd, Trash,
     Trashes, RecycleBin, SysVolInfo, a_tilde, ds_store_lower, thumbs_db_lower,
     notes_txt, report_txt_tilde, file_swp, file_SWP, file_swap, nodot_swp,
     DS_Store_bak, x_Thumbs_db}

InitClassify ==
    /\ fs = NoRoot
    /\ recursive = FALSE
    /\ stats = ZeroStats
    /\ stack = <<>>
    /\ status = "done"
    /\ error = "none"
    /\ fs0 = fs
    /\ entered = {}
    /\ listed = {}
    /\ run = 1
    /\ prev = ZeroStats
    /\ filename \in ShortNames \cup LongNames
    /\ verdict = "unknown"

\* line 208: the call is_temp_file(file)
Classify ==
    /\ verdict = "unknown"
    /\ verdict' = IF is_temp_file(filename) THEN "True" ELSE "False"
    /\ UNCHANGED <<fs, recursive, stats, stack, status, error, fs0, entered, listed,
                   run, prev, filename>>

SpecClassify == InitClassify /\ [][Classify]_vars

----------------------------------------------------------------------------
(* What a walk is to do, stated on the tree the run started on (fs0),     *)
(* without the program's own functions                                    *)

JunkNames    == {DS_Store, Thumbs_db, ehthumbs_db, Desktop_ini}
IgnoredNames == {Spotlight, fseventsd, Trash, Trashes, RecycleBin, SysVolInfo}

\* the name matches '._*', '*~' or '.*.sw?'
MatchesGlob(n) ==
    \/ Len(n) >= 2 /\ n[1] = "." /\ n[2] = "_"
    \/ Len(n) >= 1 /\ n[Len(n)] = "~"
    \/ /\ Len(n) >= 5
       /\ n[1] = "."
       /\ n[Len(n) - 3] = "." /\ n[Len(n) - 2] = "s" /\ n[Len(n) - 1] = "w"

Candidate(n) == n \in JunkNames \/ MatchesGlob(n)

Finished  == status # "walking"
RootIsDir == Root \in DOMAIN fs0 /\ fs0[Root].kind = "dir"
Subdirs   == {d \in DOMAIN fs0 : d # Root /\ fs0[d].kind = "dir"}
Entries(d) == {q \in DOMAIN fs0 : q # Root /\ Parent(q) = d}
Below(d)  == {q \in DOMAIN fs0 : Len(q) > Len(d) /\ SubSeq(q, 1, Len(d)) = d}
FilesOf(D) == {q \in DOMAIN fs0 : q # Root /\ Parent(q) \in D /\ fs0[q].kind # "dir"}
Removed   == DOMAIN fs0 \ DOMAIN fs

DirOK(d)     == {"r", "x"} \subseteq fs0[d].mode
FileOK(q)    == {"r", "w"} \subseteq fs0[q].mode
CanUnlink(q) == "w" \in fs0[Parent(q)].mode

\* the directories the walk comes to
Reached ==
    IF ~RootIsDir THEN {}
    ELSE IF ~recursive THEN {Root}
    ELSE {Root} \cup
         {d \in Subdirs : /\ \A k \in 0..(Len(d) - 1) : DirOK(SubSeq(d, 1, k))
                          /\ \A k \in 1..Len(d) : d[k] \notin IgnoredNames}

Readable == {d \in Reached : DirOK(d)}
Seen     == FilesOf(Readable)
Deletable == {q \in Seen : Candidate(Name(q)) /\ FileOK(q) /\ CanUnlink(q)}
Stuck     == {q \in Seen : Candidate(Name(q)) /\ ~(FileOK(q) /\ CanUnlink(q))}
SkippedDirs ==
    {d \in Subdirs : recursive /\ Parent(d) \in Readable /\ Name(d) \in IgnoredNames}

\* every entry the walk is to come to has been dealt with
WalkComplete ==
    /\ entered = Reached
    /\ listed = Readable
    /\ Removed = Deletable
    /\ stats.examined_files = Cardinality(Seen)
    /\ stats.deleted_files = Cardinality(Deletable)
    /\ stats.inaccessible_files = Cardinality(Stuck)

Untouched(q) == q \in DOMAIN fs /\ fs[q] = fs0[q]

----------------------------------------------------------------------------
(* The claims *)

\* C1: a call on a root directory that lacks read or execute permission fails
\* with "directory not accessible" whatever the recursive flag is, and only
\* directories reached by descent are counted in inaccessible_dirs.
C1_InaccessibleRootIsFatal ==
    /\ (Finished /\ RootIsDir /\ ~DirOK(Root))
          => (status = "failed" /\ error = "noaccess")
    /\ stats.inaccessible_dirs = Cardinality({d \in entered \ {Root} : ~DirOK(d)})

\* C2: in a recursive call on an accessible root, each subdirectory failing
\* the access check is counted once in inaccessible_dirs, is never listed,
\* nothing below it is entered, listed or removed, the call does not fail, and
\* the rest of the tree is fully processed.
C2_InaccessibleSubdirSkipped ==
    (recursive /\ RootIsDir /\ DirOK(Root)) =>
        /\ status # "failed"
        /\ \A d \in Subdirs : ~DirOK(d) =>
              /\ d \notin listed
              /\ Below(d) \cap (entered \cup listed \cup Removed) = {}
              /\ \A q \in Below(d) : Untouched(q)
        /\ stats.inaccessible_dirs = Cardinality({d \in entered : ~DirOK(d)})
        /\ status = "done" =>
              /\ stats.inaccessible_dirs = Cardinality(Reached \ Readable)
              /\ WalkComplete

C2_Witness ==
    /\ status = "done" /\ recursive /\ RootIsDir /\ DirOK(Root)
    /\ \E d \in Reached \ {Root} : ~DirOK(d)
    /\ stats.inaccessible_dirs = 1
    /\ Removed # {}

\* C3: in a recursive walk a directory entry with an ignored name is never
\* entered or listed, ignored_dirs counts it once, examined_dirs does not count
\* it, and everything below it stays as it was.
C3_IgnoredDirUntouched ==
    recursive =>
        /\ \A d \in Subdirs : Name(d) \in IgnoredNames =>
              /\ d \notin entered /\ d \notin listed
              /\ Below(d) \cap (entered \cup listed \cup Removed) = {}
              /\ \A q \in Below(d) \cup {d} : Untouched(q)
        /\ stats.examined_dirs = Cardinality(entered)
        /\ stats.ignored_dirs <= Cardinality(SkippedDirs)
        /\ status = "done" => stats.ignored_dirs = Cardinality(SkippedDirs)

C3_Witness ==
    /\ status = "done" /\ recursive
    /\ stats.ignored_dirs = 1
    /\ \E d \in SkippedDirs : \E q \in Below(d) :
          fs0[q].kind = "file" /\ Candidate(Name(q)) /\ FileOK(q) /\ CanUnlink(q)

\* C4: a non-recursive call on an accessible directory with no entries fails
\* with "directory is empty"; an empty subdirectory met in a recursive walk
\* raises nothing, removes nothing, and the walk goes on to completion.
C4_EmptyDirectory ==
    /\ (~recursive /\ RootIsDir /\ DirOK(Root) /\ Entries(Root) = {} /\ Finished)
          => (status = "failed" /\ error = "empty")
    /\ recursive =>
          /\ error # "empty"
          /\ \A d \in Subdirs \cap entered : (DirOK(d) /\ Entries(d) = {}) =>
                /\ status # "failed"
                /\ status = "done" => (d \in listed /\ WalkComplete)

C4_Witness ==
    /\ status = "done" /\ recursive
    /\ \E d \in Subdirs \cap listed : Entries(d) = {}
    /\ Removed # {}

\* C5: a candidate file that is not readable and writable, or whose removal
\* fails, is counted once in inaccessible_files and not in deleted_files, stays
\* in place, does not make the call fail, and the remaining entries are still
\* processed.
C5_FileFailureNotFatal ==
    /\ status = "failed" => (stats.examined_files = 0 /\ stats.inaccessible_files = 0)
    /\ \A q \in Stuck : Untouched(q)
    /\ stats.inaccessible_files <= Cardinality(Stuck)
    /\ stats.deleted_files = Cardinality(Removed)
    /\ status = "done" => WalkComplete

C5_Witness ==
    /\ status = "done"
    /\ \E q \in Stuck : ~FileOK(q)
    /\ \E q \in Stuck : FileOK(q) /\ ~CanUnlink(q)
    /\ stats.inaccessible_files = 2

\* C6 as stated: every candidate file that is writable when visited is removed
\* and counted in deleted_files, and a second run deletes nothing more.
C6_WritableCandidateRemoved ==
    /\ status = "done" =>
          /\ \A q \in Seen : (Candidate(Name(q)) /\ "w" \in fs0[q].mode) => q \in Removed
          /\ stats.deleted_files = Cardinality(Removed)
    /\ run = 2 => (stats.deleted_files = 0 /\ Removed = {})

\* C6 as amended: every candidate file that is readable and writable when
\* visited, and whose removal the file system allows, is removed and counted
\* once in deleted_files; a second run with the same arguments on the
\* resulting tree deletes nothing more.
C6_AccessibleCandidateRemoved ==
    /\ status = "done" =>
          /\ \A q \in Seen :
                (Candidate(Name(q)) /\ FileOK(q) /\ CanUnlink(q)) => q \in Removed
          /\ stats.deleted_files = Cardinality(Removed)
          /\ stats.deleted_files = Cardinality(Deletable)
    /\ run = 2 => (stats.deleted_files = 0 /\ Removed = {})

C6_Witness ==
    /\ run = 2 /\ status = "done"
    /\ prev.deleted_files > 0
    /\ stats.examined_files > 0

\* C7: a call on a path that is missing or is no directory fails with
\* "invalid path" for both values of the recursive flag, with every counter
\* still zero and nothing listed or removed.
C7_InvalidPath ==
    ~RootIsDir =>
        /\ stats = ZeroStats
        /\ entered = {} /\ listed = {}
        /\ fs = fs0
        /\ Finished => (status = "failed" /\ error = "invalid")

C7_Witness ==
    /\ status = "failed" /\ error = "invalid"
    /\ recursive
    /\ Root \in DOMAIN fs0

\* C8: is_temp_file(name) is true exactly when the name is one of the four
\* junk names or matches, with case, one of '._*', '*~', '.*.sw?'.
C8_ClassifyByName ==
    verdict # "unknown" => (verdict = "True" <=> Candidate(filename))

C8_Witness ==
    /\ verdict = "True"
    /\ filename \notin JunkNames
    /\ Len(filename) = 6 /\ filename[2] # "_" /\ filename[6] = "S"

\* C9: the counters start at zero and never decrease; when a walk completes,
\* examined_dirs is the number of directories entered, inaccessible_dirs is at
\* most that, examined_files is the number of non-directory entries of the
\* listed directories, and deleted_files + inaccessible_files is the number of
\* candidates among them.
C9_Counted ==
    /\ stats.examined_dirs = Cardinality(entered)
    /\ stats.inaccessible_dirs <= stats.examined_dirs
    /\ stats.examined_files = Cardinality(FilesOf(listed))
    /\ stats.deleted_files + stats.inaccessible_files
          = Cardinality({q \in FilesOf(listed) : Candidate(Name(q))})
    /\ stats.deleted_files + stats.inaccessible_files <= stats.examined_files

C9_StatsAccount ==
    /\ stats = ZeroStats
    /\ [][\A k \in DOMAIN stats : stats'[k] >= stats[k]]_vars
    /\ [](status = "done" => C9_Counted)

C9_Witness ==
    /\ status = "done"
    /\ stats.examined_dirs = 2 /\ stats.inaccessible_dirs = 1
    /\ stats.examined_files = 1 /\ stats.deleted_files = 1

\* C10: only non-directory entries with a candidate name, in a directory the
\* walk listed, are removed; nothing else changes or appears; a non-recursive
\* call examines, counts and removes nothing below the root's own entries and
\* ends with examined_dirs = 1.
C10_OnlyCandidatesRemoved ==
    /\ DOMAIN fs \subseteq DOMAIN fs0
    /\ \A q \in DOMAIN fs : fs[q] = fs0[q]
    /\ \A q \in Removed :
          fs0[q].kind # "dir" /\ Candidate(Name(q)) /\ Parent(q) \in listed
    /\ ~recursive =>
          /\ entered \subseteq {Root} /\ listed \subseteq {Root}
          /\ Removed \subseteq Entries(Root)
          /\ stats.ignored_dirs = 0 /\ stats.inaccessible_dirs = 0
          /\ stats.examined_files <= Cardinality(FilesOf({Root}))
          /\ status = "done" =>
                /\ stats.examined_dirs = 1
                /\ stats.examined_files = Cardinality(FilesOf({Root}))

C10_Witness ==
    /\ status = "done" /\ ~recursive
    /\ Removed # {}
    /\ \E d \in Subdirs : Candidate(Name(d)) /\ Untouched(d)

====
